---- MODULE Spec2Model ----
(***************************************************************************)
(* Model of the systemd-journal Go bindings: the Journal connection        *)
(* (journal.go), the Match builder (match.go) and the Follow/Tail engine   *)
(* (follow.go, tail.go).  The sd-journal library is the external store:    *)
(* its calls are modelled by the sd_journal_* operators, at the call       *)
(* sites of the Go wrappers.                                               *)
(*                                                                         *)
(* The store is an append-only sequence of entries; the cursor of entry i  *)
(* is its index i, and the empty cursor string "" is 0.                    *)
(***************************************************************************)
EXTENDS Integers, Sequences, FiniteSets, TLC

\* ---------------------------------------------------------------- bounds

\* Most entries the store ever holds.
MaxStore == 3
\* Most Matches the owner's Journal retains.
MaxMatches == 2
\* Most calls of the stop function.
MaxStops == 2
\* Longest Skip, in either direction.
MaxSkip == 2
\* Most AddMatch calls that reach the library on the Journal of MatchSpec.
MaxAdds == 1
\* Most goroutines that share one Journal.
MaxGoroutines == 2
\* Most calls of all goroutines together on the shared Journal.
MaxCalls == 2
\* Longest timeout given to Wait, in either direction, in microseconds.
MaxMicros == 2
\* Most SubmitWithFields calls in SubmitSpec.
MaxSubmits == 1

\* ------------------------------------------------------------ the store

FieldNames == {"A"}
Vals == {"x", "y"}
\* The entries other contexts submit: one field A with value x or y.
EntryPool == [FieldNames -> Vals]

\* ------------------------------------------------------ Match (match.go)

matchOpField == "field"
matchOpAnd == "and"
matchOpOr == "or"

FieldNode(f, vs) == [op |-> matchOpField, field |-> f, values |-> vs]
AndNode == [op |-> matchOpAnd, field |-> "", values |-> <<>>]
OrNode == [op |-> matchOpOr, field |-> "", values |-> <<>>]

\* A *Match: nil, or the Match it points to with its expression nodes.
NilMatch == [nil |-> TRUE, expr |-> <<>>]
NewMatch == [nil |-> FALSE, expr |-> <<>>]
Match(m, field, values) == [m EXCEPT !.expr = Append(@, FieldNode(field, values))]
And(m) == [m EXCEPT !.expr = Append(@, AndNode)]
Or(m) == [m EXCEPT !.expr = Append(@, OrNode)]

\* The Match values the owner applies: NewMatch().Match("A", v).
MatchPool == {<<FieldNode("A", <<v>>)>> : v \in Vals}

\* ------------------------------------------- the native filter (sd-journal)
\* level0 is a conjunction of level1 groups, a level1 group a disjunction of
\* level2 terms, a level2 term a conjunction over fields of the disjunction
\* of the values added for one field.  l1 and l2 say whether the library's
\* level1 / level2 pointers are set (the last group / term is still open).

NoFilter == [l0 |-> <<>>, l1 |-> FALSE, l2 |-> FALSE]

TermHolds(e, t) ==
    \A p \in t : \E q \in t : q[1] = p[1] /\ e[q[1]] = q[2]

EntryMatches(e, flt) ==
    \A g \in 1..Len(flt.l0) :
        \E n \in 1..Len(flt.l0[g]) : TermHolds(e, flt.l0[g][n])

AddToFilter(flt, f, v) ==
    IF ~flt.l1
    THEN [l0 |-> Append(flt.l0, <<{<<f, v>>}>>), l1 |-> TRUE, l2 |-> TRUE]
    ELSE LET g == Len(flt.l0) IN
         IF ~flt.l2
         THEN [flt EXCEPT !.l0[g] = Append(@, {<<f, v>>}), !.l2 = TRUE]
         ELSE [flt EXCEPT !.l0[g][Len(flt.l0[g])] = @ \cup {<<f, v>>}]

\* ------------------------------------------- the native handle (sd-journal)
\* loc: "head", "tail", "seek" (at cursor idx, not yet on an entry) or "at"
\* (on entry idx).  cur: the position addresses an entry that can be read.
\* watching / pending: the inotify watch the first wait creates, and whether
\* a change was queued on it since the last wait.

NewHandle ==
    [loc |-> "head", idx |-> 0, cur |-> FALSE, flt |-> NoFilter,
     watching |-> FALSE, pending |-> FALSE]

FirstFrom(st, flt, k) ==
    LET S == {i \in k..Len(st) : EntryMatches(st[i], flt)}
    IN IF S = {} THEN 0 ELSE CHOOSE i \in S : \A m \in S : i <= m

LastUpTo(st, flt, k) ==
    LET S == {i \in 1..k : i <= Len(st) /\ EntryMatches(st[i], flt)}
    IN IF S = {} THEN 0 ELSE CHOOSE i \in S : \A m \in S : i >= m

\* The library's move to the next entry that passes the filter: from a seek
\* position the entry at the cursor itself (or the closest after it), from an
\* entry the one after it.  0: no such entry, the position is kept.
sd_journal_next(h, st) ==
    LET t == CASE h.loc = "head" -> FirstFrom(st, h.flt, 1)
               [] h.loc = "tail" -> 0
               [] h.loc = "seek" -> FirstFrom(st, h.flt, h.idx)
               [] OTHER -> FirstFrom(st, h.flt, h.idx + 1)
    IN IF t = 0 THEN [h |-> h, ret |-> 0]
       ELSE [h |-> [h EXCEPT !.loc = "at", !.idx = t, !.cur = TRUE], ret |-> 1]

sd_journal_previous(h, st) ==
    LET t == CASE h.loc = "head" -> 0
               [] h.loc = "tail" -> LastUpTo(st, h.flt, Len(st))
               [] h.loc = "seek" -> LastUpTo(st, h.flt, h.idx)
               [] OTHER -> LastUpTo(st, h.flt, h.idx - 1)
    IN IF t = 0 THEN [h |-> h, ret |-> 0]
       ELSE [h |-> [h EXCEPT !.loc = "at", !.idx = t, !.cur = TRUE], ret |-> 1]

sd_journal_seek_head(h) == [h EXCEPT !.loc = "head", !.idx = 0, !.cur = FALSE]
sd_journal_seek_tail(h) == [h EXCEPT !.loc = "tail", !.idx = 0, !.cur = FALSE]
sd_journal_seek_cursor(h, c) == [h EXCEPT !.loc = "seek", !.idx = c, !.cur = FALSE]

\* The cursor of the current entry; 0 with EADDRNOTAVAIL when the position
\* addresses no entry.
sd_journal_get_cursor(h) ==
    IF h.loc = "at" /\ h.cur THEN [cursor |-> h.idx, err |-> ""]
    ELSE [cursor |-> 0, err |-> "EADDRNOTAVAIL"]

\* Adding to or flushing the filter detaches the position from its entry.
detach_location(h) == [h EXCEPT !.cur = FALSE]

\* A match that is already in the open term changes nothing.
sd_journal_add_match(h, f, v) ==
    LET nf == AddToFilter(h.flt, f, v)
    IN IF nf = h.flt THEN h ELSE detach_location([h EXCEPT !.flt = nf])

sd_journal_add_conjunction(h) ==
    IF h.flt.l1 THEN [h EXCEPT !.flt.l1 = FALSE, !.flt.l2 = FALSE] ELSE h

sd_journal_add_disjunction(h) ==
    IF h.flt.l1 /\ h.flt.l2 THEN [h EXCEPT !.flt.l2 = FALSE] ELSE h

sd_journal_flush_matches(h) == detach_location([h EXCEPT !.flt = NoFilter])

\* A uint64 is written as its four 16-bit limbs, the highest first.
Limb == 2^16
MaxUint64 == <<Limb - 1, Limb - 1, Limb - 1, Limb - 1>>

\* uint64(q) of a signed q (two's complement), for q of up to 32 bits.
Uint64(q) ==
    IF q >= 0 THEN <<0, 0, q \div Limb, q % Limb>>
    ELSE <<Limb - 1, Limb - 1, (q \div Limb) + Limb, q % Limb>>

\* Go's a / b on integers, which truncates toward zero.
Quot(a, b) == IF a >= 0 THEN a \div b ELSE 0 - ((0 - a) \div b)

\* The outcomes of a wait.  The first wait creates the watch and returns at
\* once with a change; later waits return a queued change, or NoOperation
\* when the timeout runs out with nothing queued.  Infinite: the timeout
\* (uint64_t) -1, with which the library waits without a timeout.
NoOperation == "NoOperation"
AppendEvent == "Append"
Invalidate == "Invalidate"
Infinite == MaxUint64

sd_journal_wait(h, t) ==
    IF ~h.watching \/ h.pending
    THEN {[h |-> [h EXCEPT !.watching = TRUE, !.pending = FALSE], ret |-> ev] :
              ev \in {AppendEvent, Invalidate}}
    ELSE IF t = Infinite THEN {} ELSE {[h |-> h, ret |-> NoOperation]}

\* An append by another context queues a change on every watch.
Notify(h) == IF h.watching THEN [h EXCEPT !.pending = TRUE] ELSE h

\* --------------------------------------------- Journal (journal.go)
\* A Journal is its native handle and the Matches it retains.  A nil error
\* is "".

NewJournal == [sdJournal |-> NewHandle, matches |-> <<>>]

\* fail: the native calls that return an error, as <<node, value>> places
\* (<<n, 1>> for a conjunction or disjunction node).  Within one Field node
\* ret is overwritten by each value, so only the last value's ret is tested.
RECURSIVE AddValues(_, _, _, _, _, _, _)
AddValues(h, f, vs, n, k, fail, ret) ==
    IF k > Len(vs) THEN [h |-> h, ret |-> ret]
    ELSE IF <<n, k>> \in fail
         THEN AddValues(h, f, vs, n, k + 1, fail, -1)
         ELSE AddValues(sd_journal_add_match(h, f, vs[k]), f, vs, n, k + 1, fail, 0)

\* AddNodes that puts a disjunction before every Field node after the first.
RECURSIVE AddNodes_OrBetween(_, _, _, _)
AddNodes_OrBetween(h, m, n, fail) ==
    IF n > Len(m) THEN [h |-> h, err |-> ""]
    ELSE LET r == CASE m[n].op = matchOpField ->
                         AddValues(IF n > 1 THEN sd_journal_add_disjunction(h) ELSE h,
                                   m[n].field, m[n].values, n, 1, fail, 0)
                    [] m[n].op = matchOpAnd ->
                         IF <<n, 1>> \in fail THEN [h |-> h, ret |-> -1]
                         ELSE [h |-> sd_journal_add_conjunction(h), ret |-> 0]
                    [] OTHER ->
                         IF <<n, 1>> \in fail THEN [h |-> h, ret |-> -1]
                         ELSE [h |-> sd_journal_add_disjunction(h), ret |-> 0]
         IN IF r.ret < 0 THEN [h |-> r.h, err |-> "failed to add match"]
            ELSE AddNodes_OrBetween(r.h, m, n + 1, fail)

\* AddNodes that compiles an Or node as a conjunction.
RECURSIVE AddNodes_OrAsAnd(_, _, _, _)
AddNodes_OrAsAnd(h, m, n, fail) ==
    IF n > Len(m) THEN [h |-> h, err |-> ""]
    ELSE LET r == CASE m[n].op = matchOpField ->
                         AddValues(h, m[n].field, m[n].values, n, 1, fail, 0)
                    [] OTHER ->
                         IF <<n, 1>> \in fail THEN [h |-> h, ret |-> -1]
                         ELSE [h |-> sd_journal_add_conjunction(h), ret |-> 0]
         IN IF r.ret < 0 THEN [h |-> r.h, err |-> "failed to add match"]
            ELSE AddNodes_OrAsAnd(r.h, m, n + 1, fail)

\* One pass of AddMatch's loop over the nodes, between Lock and Unlock: the
\* native calls of node n and the ret that is tested after it.
AddNode(h, node, n, fail) ==
    CASE node.op = matchOpField ->
             AddValues(h, node.field, node.values, n, 1, fail, 0)
      [] node.op = matchOpAnd ->
             IF <<n, 1>> \in fail THEN [h |-> h, ret |-> -1]
             ELSE [h |-> sd_journal_add_conjunction(h), ret |-> 0]
      [] OTHER ->
             IF <<n, 1>> \in fail THEN [h |-> h, ret |-> -1]
             ELSE [h |-> sd_journal_add_disjunction(h), ret |-> 0]

RECURSIVE AddNodes(_, _, _, _)
AddNodes(h, m, n, fail) ==
    IF n > Len(m) THEN [h |-> h, err |-> ""]
    ELSE LET r == AddNode(h, m[n], n, fail)
         IN IF r.ret < 0 THEN [h |-> r.h, err |-> "failed to add match"]
            ELSE AddNodes(r.h, m, n + 1, fail)

\* AddMatch that compiles whatever nodes there are and retains the Match.
AddMatch_NoGuard(jn, m, fail) ==
    LET r == AddNodes(jn.sdJournal, m, 1, fail)
    IN IF r.err # "" THEN [j |-> [jn EXCEPT !.sdJournal = r.h], err |-> r.err]
       ELSE [j |-> [sdJournal |-> r.h, matches |-> Append(jn.matches, m)], err |-> ""]

\* Journal.AddMatch: the Journal afterwards and the error returned.
AddMatch(jn, m, fail) ==
    IF Len(m) = 0 THEN [j |-> jn, err |-> "no match expression to add"]
    ELSE LET r == AddNodes(jn.sdJournal, m, 1, fail)
         IN IF r.err # "" THEN [j |-> [jn EXCEPT !.sdJournal = r.h], err |-> r.err]
            ELSE [j |-> [sdJournal |-> r.h, matches |-> Append(jn.matches, m)],
                  err |-> ""]

\* Journal.AddMatch called with a *Match: nil is rejected like a Match without
\* nodes.
AddMatchPtr(jn, p, fail) ==
    IF p.nil THEN [j |-> jn, err |-> "no match expression to add"]
    ELSE AddMatch(jn, p.expr, fail)

FlushMatches(jn) == [jn EXCEPT !.sdJournal = sd_journal_flush_matches(@)]

\* Journal.SeekCursor: the library rejects the empty cursor with EINVAL.
SeekCursor(jn, c, ok) ==
    IF ~ok \/ c = 0 THEN [j |-> jn, err |-> "EINVAL"]
    ELSE [j |-> [jn EXCEPT !.sdJournal = sd_journal_seek_cursor(@, c)], err |-> ""]

\* Journal.Next: ret and the error; ok = FALSE is a failing native call.
JournalNext(jn, st, ok) ==
    IF ~ok THEN [j |-> jn, ret |-> 0, err |-> "failed to move to next entry"]
    ELSE LET r == sd_journal_next(jn.sdJournal, st)
         IN [j |-> [jn EXCEPT !.sdJournal = r.h], ret |-> r.ret, err |-> ""]

\* Cursor that answers with the cursor last sought or stood on, whether or
\* not the position is on an entry.
Cursor_LastKnown(jn, ok) ==
    IF jn.sdJournal.idx > 0 /\ ok THEN [cursor |-> jn.sdJournal.idx, err |-> ""]
    ELSE IF sd_journal_get_cursor(jn.sdJournal).err # ""
         THEN sd_journal_get_cursor(jn.sdJournal)
         ELSE [cursor |-> 0, err |-> "ENOMEM"]

\* Journal.Cursor: the cursor and the errno of the error.  Without a current
\* entry the library returns EADDRNOTAVAIL before anything else can fail;
\* ok = FALSE is a read that fails on an entry (ENOMEM).
Cursor(jn, ok) ==
    LET r == sd_journal_get_cursor(jn.sdJournal)
    IN IF r.err # "" THEN r
       ELSE IF ~ok THEN [cursor |-> 0, err |-> "ENOMEM"]
       ELSE r

\* Journal.ReadEntry: nil is <<>>, an entry <<[cursor, fields]>>.  The first
\* native call (the timestamp) fails with EADDRNOTAVAIL without a current
\* entry; ok = FALSE is a later native call that fails.
ReadEntry(jn, st, ok) ==
    IF sd_journal_get_cursor(jn.sdJournal).err # ""
    THEN [entry |-> <<>>, err |-> "failed to read", errno |-> "EADDRNOTAVAIL"]
    ELSE IF ~ok
    THEN [entry |-> <<>>, err |-> "failed to read", errno |-> "EIO"]
    ELSE [entry |-> <<[cursor |-> jn.sdJournal.idx, fields |-> st[jn.sdJournal.idx]]>>,
          err |-> "", errno |-> ""]

\* A time.Duration is a number of nanoseconds.
Microsecond == 1000
Millisecond == 1000000

\* Timeout waiting for new journal entries.
waitTimeout == 300 * Millisecond

\* The timeout in microseconds that Wait hands to the library: no timeout
\* for -1, else uint64(timeout / time.Microsecond).
WaitTimeout(timeout) ==
    IF timeout = -1 THEN MaxUint64 ELSE Uint64(Quot(timeout, Microsecond))

\* Journal.Wait.  No outcome: the call does not return.
Wait(jn, timeout, ok) ==
    IF ~ok THEN {[j |-> jn, event |-> NoOperation, err |-> "failed to wait for journal change"]}
    ELSE {[j |-> [jn EXCEPT !.sdJournal = r.h], event |-> r.ret, err |-> ""] :
              r \in sd_journal_wait(jn.sdJournal, WaitTimeout(timeout))}

\* ------------------------------------------ Follow / Tail (follow.go)

ErrFollowStopped == "journal: follow stopped"
ErrTailStopped == "journal: tail stopped"
Apis == {"Follow", "Tail"}
Sentinel(api) == IF api = "Follow" THEN ErrFollowStopped ELSE ErrTailStopped

\* A handler is nil or a function.  reflect.ValueOf(h).IsNil() of a func
\* value says whether it is nil.
Handlers == {"nil", "func"}
IsNil(h) == h = "nil"

\* if h != nil && reflect.ValueOf(h).IsNil()
HandlerMissing(h) == h # "nil" /\ IsNil(h)
HandlerError(api) ==
    IF api = "Follow" THEN "a follow handler must be provided"
    ELSE "a tail handler must be provided"

\* The native call of Follow that fails with an errno other than
\* EADDRNOTAVAIL (ENOMEM), if any.
FollowInj == {"none", "Cursor", "SeekTail", "Previous", "Cursor2"}

\* Journal.Follow / Journal.Tail up to the go statement: the owner's Journal
\* afterwards, the error returned, whether the worker is started, and the
\* cursor and eof flag it is started with.  A first cursor read that fails
\* with another error than EADDRNOTAVAIL falls through to the go statement
\* with the empty cursor.
FollowStart(jn, st, inj) ==
    LET c1 == Cursor(jn, inj # "Cursor")
        h1 == sd_journal_seek_tail(jn.sdJournal)
        p == sd_journal_previous(h1, st)
        c2 == Cursor([jn EXCEPT !.sdJournal = p.h], inj # "Cursor2")
        ret(jx, e, sp, c, eof) ==
            [j |-> jx, err |-> e, spawn |-> sp, cursor |-> c, eof |-> eof,
             cerr |-> c1.err]
    IN IF c1.err = "" THEN ret(jn, "", TRUE, c1.cursor, FALSE)
       ELSE IF c1.err = "EADDRNOTAVAIL"
            THEN IF inj = "SeekTail" THEN ret(jn, "ENOMEM", FALSE, 0, FALSE)
                 ELSE IF inj = "Previous"
                      THEN ret([jn EXCEPT !.sdJournal = h1], "ENOMEM", FALSE, 0, FALSE)
                 ELSE IF c2.err # ""
                      THEN ret([jn EXCEPT !.sdJournal = p.h], c2.err, FALSE, 0, FALSE)
                 ELSE ret([jn EXCEPT !.sdJournal = p.h], "", TRUE, c2.cursor, TRUE)
            ELSE ret(jn, "", TRUE, 0, FALSE)

\* StopFn without the sync.Once: every call sends on done.
StopFn_NoOnce(o, d) ==
    IF d < 1 THEN [once |-> TRUE, done |-> d + 1, blocked |-> FALSE]
    ELSE [once |-> TRUE, done |-> d, blocked |-> TRUE]

\* The stop function: once.Do(func() { done <- true }) on a channel of
\* capacity 1.  blocked: the caller is stuck on a full channel.
StopFn(o, d) ==
    IF o THEN [once |-> TRUE, done |-> d, blocked |-> FALSE]
    ELSE IF d < 1 THEN [once |-> TRUE, done |-> d + 1, blocked |-> FALSE]
         ELSE [once |-> TRUE, done |-> d, blocked |-> TRUE]

\* ------------------------------ the owner's Journal by itself (journal.go)
\* The calls of one goroutine on one Journal, Close included.  op is the last
\* call: its name, its error, whether it came after Close (after) and made a
\* native call on the released handle (uaf), whether the process crashed in
\* it, how often the handle was released, and whether the last successful
\* seek is still waiting for a step that returns a positive count (seeked).

sd_journal_seek_realtime_usec(h, t) ==
    [h EXCEPT !.loc = "seek", !.idx = t, !.cur = FALSE]

\* n steps forward; ret counts the entries passed, the walk ends at the first
\* step that finds none.
RECURSIVE sd_journal_next_skip(_, _, _)
sd_journal_next_skip(h, st, n) ==
    IF n = 0 THEN [h |-> h, ret |-> 0]
    ELSE LET r == sd_journal_next(h, st)
         IN IF r.ret = 0 THEN [h |-> h, ret |-> 0]
            ELSE LET q == sd_journal_next_skip(r.h, st, n - 1)
                 IN [h |-> q.h, ret |-> q.ret + 1]

RECURSIVE sd_journal_previous_skip(_, _, _)
sd_journal_previous_skip(h, st, n) ==
    IF n = 0 THEN [h |-> h, ret |-> 0]
    ELSE LET r == sd_journal_previous(h, st)
         IN IF r.ret = 0 THEN [h |-> h, ret |-> 0]
            ELSE LET q == sd_journal_previous_skip(r.h, st, n - 1)
                 IN [h |-> q.h, ret |-> q.ret + 1]

\* Journal.Previous
JournalPrevious(jn, st, ok) ==
    IF ~ok THEN [j |-> jn, ret |-> 0, err |-> "failed to move to prevoius entry"]
    ELSE LET r == sd_journal_previous(jn.sdJournal, st)
         IN [j |-> [jn EXCEPT !.sdJournal = r.h], ret |-> r.ret, err |-> ""]

\* Journal.Skip: 0 returns at once, without a native call (native = FALSE).
Skip(jn, st, n, ok) ==
    IF n = 0 THEN [j |-> jn, ret |-> 0, err |-> "", native |-> FALSE]
    ELSE IF ~ok THEN [j |-> jn, ret |-> 0, err |-> "failed to skip entries", native |-> TRUE]
    ELSE LET r == IF n > 0 THEN sd_journal_next_skip(jn.sdJournal, st, n)
                  ELSE sd_journal_previous_skip(jn.sdJournal, st, n * (-1))
         IN [j |-> [jn EXCEPT !.sdJournal = r.h], ret |-> r.ret, err |-> "",
             native |-> TRUE]

\* Journal.SeekHead / SeekTail / SeekTimestamp: ok = FALSE is a failing call.
SeekHead(jn, ok) ==
    IF ~ok THEN [j |-> jn, err |-> "failed seek head"]
    ELSE [j |-> [jn EXCEPT !.sdJournal = sd_journal_seek_head(@)], err |-> ""]

SeekTail(jn, ok) ==
    IF ~ok THEN [j |-> jn, err |-> "failed seek tail"]
    ELSE [j |-> [jn EXCEPT !.sdJournal = sd_journal_seek_tail(@)], err |-> ""]

\* The realtime of entry i is i.
SeekTimestamp(jn, t, ok) ==
    IF ~ok THEN [j |-> jn, err |-> "failed seek to timestamp"]
    ELSE [j |-> [jn EXCEPT !.sdJournal = sd_journal_seek_realtime_usec(@, t)],
          err |-> ""]

\* Journal.Close: sd_journal_close on whatever j.sdJournal holds; the field is
\* left as it is.  released: how often the handle has been released.
Close(jn, released) == [j |-> jn, released |-> released + 1]

NoCall ==
    [name |-> "", err |-> "", after |-> FALSE, uaf |-> FALSE, crashed |-> FALSE,
     released |-> 0, seeked |-> FALSE]

VARIABLES
    store,      \* the journal: a sequence of entries
    j,          \* the owner's Journal
    fl,         \* the Follow / Tail call: what it was given and returned, the
                \* error of its first cursor read, the store's length then
    args,       \* the worker's arguments: cursor, matches, eof
    once,       \* the stop function's sync.Once has run
    done,       \* values buffered in the done channel
    blocked,    \* stop callers stuck sending on done
    stopCalls,  \* calls of the stop function so far
    pc,         \* the worker's position
    jour,       \* the worker's Journal
    wi,         \* index of the next Match the worker replays
    calls,      \* the handler's invocations, in order
    closes,     \* native closes of the worker's handle
    afterStop,  \* entries handed to the handler after the first stop call
    quiet,      \* "fresh": nothing submitted since Follow; "dirty": something
                \* was; "quiet": the first stop call came while still fresh
    op,         \* the owner's last call outside Follow and what it returned
    mutex,      \* j.mutex: 0 when unlocked, else the goroutine holding it
    gor,        \* the goroutines that share j: each one's call and position
    native      \* the native calls on j's handle, in the order they began

vars == <<store, j, fl, args, once, done, blocked, stopCalls, pc, jour,
          wi, calls, closes, afterStop, quiet, op, mutex, gor, native>>

concVars == <<mutex, gor, native>>

parentVars == <<j, fl, args>>
stopVars == <<once, done, blocked, stopCalls>>

NotCalled ==
    [called |-> FALSE, api |-> "Follow", stop |-> FALSE, err |-> "", cerr |-> "",
     len |-> 0, h |-> "func"]

Init ==
    /\ store = <<>>
    /\ j = NewJournal
    /\ fl = NotCalled
    /\ args = [cursor |-> 0, matches |-> <<>>, eof |-> FALSE]
    /\ once = FALSE
    /\ done = 0
    /\ blocked = 0
    /\ stopCalls = 0
    /\ pc = "none"
    /\ jour = NewJournal
    /\ wi = 1
    /\ calls = <<>>
    /\ closes = 0
    /\ afterStop = 0
    /\ quiet = "dirty"
    /\ op = NoCall
    /\ mutex = 0
    /\ gor = <<>>
    /\ native = <<>>

\* Another context submits an entry; every watch gets a change queued.
Submit(e) ==
    /\ Len(store) < MaxStore
    /\ store' = Append(store, e)
    /\ j' = [j EXCEPT !.sdJournal = Notify(@)]
    /\ jour' = [jour EXCEPT !.sdJournal = Notify(@)]
    /\ quiet' = IF quiet = "fresh" THEN "dirty" ELSE quiet
    /\ UNCHANGED <<fl, args, stopVars, pc, wi, calls, closes, afterStop, op, concVars>>

\* ---- the owner's calls on its own Journal, before Follow

OwnerSeekHead ==
    /\ ~fl.called
    /\ j' = [j EXCEPT !.sdJournal = sd_journal_seek_head(@)]
    /\ UNCHANGED <<store, fl, args, stopVars, pc, jour, wi, calls, closes, afterStop, quiet, op,
                   concVars>>

OwnerSeekTail ==
    /\ ~fl.called
    /\ j' = [j EXCEPT !.sdJournal = sd_journal_seek_tail(@)]
    /\ UNCHANGED <<store, fl, args, stopVars, pc, jour, wi, calls, closes, afterStop, quiet, op,
                   concVars>>

OwnerNext ==
    /\ ~fl.called
    /\ j' = JournalNext(j, store, TRUE).j
    /\ UNCHANGED <<store, fl, args, stopVars, pc, jour, wi, calls, closes, afterStop, quiet, op,
                   concVars>>

OwnerAddMatch(m, fail) ==
    /\ ~fl.called
    /\ Len(j.matches) < MaxMatches
    /\ j' = AddMatch(j, m, fail).j
    /\ UNCHANGED <<store, fl, args, stopVars, pc, jour, wi, calls, closes, afterStop, quiet, op,
                   concVars>>

OwnerFlushMatches ==
    /\ ~fl.called
    /\ j' = FlushMatches(j)
    /\ UNCHANGED <<store, fl, args, stopVars, pc, jour, wi, calls, closes, afterStop, quiet, op,
                   concVars>>

\* Journal.Follow(h) / Journal.Tail(h): the test of the handler, then the
\* rest.
Follow(api, inj, h) ==
    /\ ~fl.called
    /\ LET r == IF HandlerMissing(h)
                THEN [j |-> j, err |-> HandlerError(api), spawn |-> FALSE, cursor |-> 0,
                      eof |-> FALSE, cerr |-> ""]
                ELSE FollowStart(j, store, inj)
       IN /\ j' = r.j
          /\ fl' = [called |-> TRUE, api |-> api, stop |-> r.spawn, err |-> r.err,
                    cerr |-> r.cerr, len |-> Len(store), h |-> h]
          /\ args' = [cursor |-> r.cursor, matches |-> j.matches, eof |-> r.eof]
          /\ pc' = IF r.spawn THEN "open" ELSE "none"
          /\ quiet' = IF r.spawn THEN "fresh" ELSE quiet
    /\ UNCHANGED <<store, stopVars, jour, wi, calls, closes, afterStop, op, concVars>>

\* A call of the returned stop function, from any goroutine.
Stop ==
    /\ fl.stop
    /\ stopCalls < MaxStops
    /\ stopCalls' = stopCalls + 1
    /\ LET r == StopFn(once, done)
       IN /\ once' = r.once
          /\ done' = r.done
          /\ blocked' = IF r.blocked THEN blocked + 1 ELSE blocked
    /\ quiet' = IF quiet = "fresh" THEN "quiet" ELSE quiet
    /\ UNCHANGED <<store, parentVars, pc, jour, wi, calls, closes, afterStop, op, concVars>>

\* ---- the worker: followJournal / tailJournal

\* A call of a nil handler panics: the deferred jour.Close() runs when the
\* worker had opened its Journal, and the process ends.
Panic(opened) ==
    /\ calls' = calls
    /\ closes' = IF opened THEN closes + 1 ELSE closes
    /\ pc' = "panicked"

\* Terminal without the deferred jour.Close().
Terminal_NoClose(err, opened) ==
    /\ calls' = Append(calls, [entry |-> <<>>, err |-> err])
    /\ closes' = closes
    /\ pc' = "exited"

\* h(nil, err) on the way out; the deferred jour.Close() runs when the
\* worker had opened its Journal.
Terminal(err, opened) ==
    IF fl.h = "nil" THEN Panic(opened)
    ELSE /\ calls' = Append(calls, [entry |-> <<>>, err |-> err])
         /\ closes' = IF opened THEN closes + 1 ELSE closes
         /\ pc' = "exited"

\* h(e, nil)
Deliver(e) ==
    /\ calls' = Append(calls, [entry |-> e, err |-> ""])
    /\ afterStop' = IF stopCalls > 0 THEN afterStop + 1 ELSE afterStop

\* jour, err := Open()
wOpen(ok) ==
    /\ pc = "open"
    /\ IF ok
       THEN /\ jour' = NewJournal
            /\ wi' = 1
            /\ pc' = IF Len(args.matches) = 0 THEN "seek" ELSE "addmatch"
            /\ UNCHANGED <<calls, closes>>
       ELSE /\ Terminal("failed to open journal", FALSE)
            /\ UNCHANGED <<jour, wi>>
    /\ UNCHANGED <<store, parentVars, stopVars, afterStop, quiet, op, concVars>>

\* for _, m := range matches { jour.AddMatch(m) }: one Match per step
wAddMatch(fail) ==
    /\ pc = "addmatch"
    /\ LET r == AddMatch(jour, args.matches[wi], fail)
       IN /\ jour' = r.j
          /\ IF r.err # ""
             THEN /\ Terminal("failed to add match", TRUE)
                  /\ UNCHANGED wi
             ELSE /\ wi' = wi + 1
                  /\ pc' = IF wi + 1 > Len(args.matches) THEN "seek" ELSE "addmatch"
                  /\ UNCHANGED <<calls, closes>>
    /\ UNCHANGED <<store, parentVars, stopVars, afterStop, quiet, op, concVars>>

\* jour.SeekCursor(cursor)
wSeekCursor(ok) ==
    /\ pc = "seek"
    /\ LET r == SeekCursor(jour, args.cursor, ok)
       IN /\ jour' = r.j
          /\ IF r.err # ""
             THEN Terminal("failed to seek to cursor", TRUE)
             ELSE /\ pc' = IF args.eof THEN "eofnext" ELSE "next"
                  /\ UNCHANGED <<calls, closes>>
    /\ UNCHANGED <<store, parentVars, stopVars, wi, afterStop, quiet, op, concVars>>

\* if eof { jour.Next() }: the result is dropped
wEofNext(ok) ==
    /\ pc = "eofnext"
    /\ LET r == JournalNext(jour, store, ok)
       IN /\ jour' = r.j
          /\ IF r.err # ""
             THEN Terminal("failed move cursor to next position", TRUE)
             ELSE /\ pc' = "next"
                  /\ UNCHANGED <<calls, closes>>
    /\ UNCHANGED <<store, parentVars, stopVars, wi, afterStop, quiet, op, concVars>>

\* wNext that reports a failed Next to the handler and tries again.
wNext_Retry(ok) ==
    /\ pc = "next"
    /\ LET r == JournalNext(jour, store, ok)
       IN /\ jour' = r.j
          /\ IF r.err # ""
             THEN /\ Len(calls) < MaxStore + 2
                  /\ calls' = Append(calls, [entry |-> <<>>,
                                             err |-> "failed to move cursor to next entry"])
                  /\ UNCHANGED <<pc, closes>>
             ELSE /\ pc' = IF r.ret = 0 THEN "waitselect" ELSE "readselect"
                  /\ UNCHANGED <<calls, closes>>
    /\ UNCHANGED <<store, parentVars, stopVars, wi, afterStop, quiet, op, concVars>>

\* ret, err := jour.Next() at the head of the loop
wNext(ok) ==
    /\ pc = "next"
    /\ LET r == JournalNext(jour, store, ok)
       IN /\ jour' = r.j
          /\ IF r.err # ""
             THEN Terminal("failed to move cursor to next entry", TRUE)
             ELSE /\ pc' = IF r.ret = 0 THEN "waitselect" ELSE "readselect"
                  /\ UNCHANGED <<calls, closes>>
    /\ UNCHANGED <<store, parentVars, stopVars, wi, afterStop, quiet, op, concVars>>

\* select { case <-done: ...; default: } of the wait loop
wWaitSelect ==
    /\ pc = "waitselect"
    /\ IF done > 0
       THEN /\ done' = done - 1
            /\ Terminal(Sentinel(fl.api), TRUE)
       ELSE /\ pc' = "wait"
            /\ UNCHANGED <<done, calls, closes>>
    /\ UNCHANGED <<store, parentVars, once, blocked, stopCalls, jour, wi, afterStop, quiet, op,
                   concVars>>

\* wWait that, woken by a change, seeks back to the start cursor.
wWait_Reseek(ok) ==
    /\ pc = "wait"
    /\ \E r \in Wait(jour, waitTimeout, ok) :
          IF r.err # ""
          THEN /\ jour' = r.j
               /\ Terminal("failed to wait for new entries", TRUE)
          ELSE /\ jour' = IF r.event = NoOperation THEN r.j
                          ELSE SeekCursor(r.j, args.cursor, TRUE).j
               /\ pc' = IF r.event = NoOperation THEN "waitselect" ELSE "next"
               /\ UNCHANGED <<calls, closes>>
    /\ UNCHANGED <<store, parentVars, stopVars, wi, afterStop, quiet, op, concVars>>

\* wWait that, on NoOperation, waits again without looking at done.
wWait_NoRecheck(ok) ==
    /\ pc = "wait"
    /\ \E r \in Wait(jour, waitTimeout, ok) :
          /\ jour' = r.j
          /\ IF r.err # ""
             THEN Terminal("failed to wait for new entries", TRUE)
             ELSE /\ pc' = IF r.event = NoOperation THEN "wait" ELSE "next"
                  /\ UNCHANGED <<calls, closes>>
    /\ UNCHANGED <<store, parentVars, stopVars, wi, afterStop, quiet, op, concVars>>

\* wue, err := jour.Wait(waitTimeout)
wWait(ok) ==
    /\ pc = "wait"
    /\ \E r \in Wait(jour, waitTimeout, ok) :
          /\ jour' = r.j
          /\ IF r.err # ""
             THEN Terminal("failed to wait for new entries", TRUE)
             ELSE /\ pc' = IF r.event = NoOperation THEN "waitselect" ELSE "next"
                  /\ UNCHANGED <<calls, closes>>
    /\ UNCHANGED <<store, parentVars, stopVars, wi, afterStop, quiet, op, concVars>>

\* wReadSelect without the look at done: the entry is always read.
wReadSelect_NoCheck ==
    /\ pc = "readselect"
    /\ pc' = "read"
    /\ UNCHANGED <<done, calls, closes>>
    /\ UNCHANGED <<store, parentVars, once, blocked, stopCalls, jour, wi, afterStop, quiet, op,
                   concVars>>

\* select { case <-done: ...; default: ... } after Next found an entry
wReadSelect ==
    /\ pc = "readselect"
    /\ IF done > 0
       THEN /\ done' = done - 1
            /\ Terminal(Sentinel(fl.api), TRUE)
       ELSE /\ pc' = "read"
            /\ UNCHANGED <<done, calls, closes>>
    /\ UNCHANGED <<store, parentVars, once, blocked, stopCalls, jour, wi, afterStop, quiet, op,
                   concVars>>

\* e, err := jour.ReadEntry(); h(e, nil)
wReadEntry(ok) ==
    /\ pc = "read"
    /\ LET r == ReadEntry(jour, store, ok)
       IN IF r.err # ""
          THEN /\ Terminal("failed to read entry", TRUE)
               /\ UNCHANGED afterStop
          ELSE IF fl.h = "nil"
          THEN /\ Panic(TRUE)
               /\ UNCHANGED afterStop
          ELSE /\ Deliver(r.entry)
               /\ pc' = "next"
               /\ UNCHANGED closes
    /\ UNCHANGED <<store, parentVars, stopVars, jour, wi, quiet, op, concVars>>

\* A native call fails at the first place of a Match, or nowhere.
Fails == {{}, {<<1, 1>>}}

WorkerStep ==
    \/ \E ok \in BOOLEAN : wOpen(ok)
    \/ \E fail \in Fails : wAddMatch(fail)
    \/ \E ok \in BOOLEAN : wSeekCursor(ok)
    \/ \E ok \in BOOLEAN : wEofNext(ok)
    \/ \E ok \in BOOLEAN : wNext(ok)
    \/ wWaitSelect
    \/ \E ok \in BOOLEAN : wWait(ok)
    \/ wReadSelect
    \/ \E ok \in BOOLEAN : wReadEntry(ok)

Next ==
    \/ \E e \in EntryPool : Submit(e)
    \/ OwnerSeekHead
    \/ OwnerSeekTail
    \/ OwnerNext
    \/ \E m \in MatchPool, fail \in Fails : OwnerAddMatch(m, fail)
    \/ OwnerFlushMatches
    \/ \E api \in Apis, inj \in FollowInj : Follow(api, inj, "func")
    \/ Stop
    \/ WorkerStep

Spec == Init /\ [][Next]_vars

\* The same with any handler, nil among them.
HandlerNext ==
    \/ \E e \in EntryPool : Submit(e)
    \/ OwnerSeekHead
    \/ OwnerSeekTail
    \/ OwnerNext
    \/ \E m \in MatchPool, fail \in Fails : OwnerAddMatch(m, fail)
    \/ OwnerFlushMatches
    \/ \E api \in Apis, inj \in FollowInj, h \in Handlers : Follow(api, inj, h)
    \/ Stop
    \/ WorkerStep

HandlerSpec == Init /\ [][HandlerNext]_vars

\* The worker's steps in which no native call is made to fail.
WorkerRuns ==
    \/ wOpen(TRUE)
    \/ wAddMatch({})
    \/ wSeekCursor(TRUE)
    \/ wEofNext(TRUE)
    \/ wNext(TRUE)
    \/ wWaitSelect
    \/ wWait(TRUE)
    \/ wReadSelect
    \/ wReadEntry(TRUE)

\* The Go scheduler runs a runnable worker, and a Wait with waitTimeout
\* returns; nothing obliges a native call to fail.
FairSpec == Spec /\ WF_vars(WorkerRuns)

\* ---- one goroutine's calls on its Journal, Close among them

ownerVars ==
    <<store, fl, args, stopVars, pc, jour, wi, calls, closes, afterStop, quiet, concVars>>

\* A call that reaches the library: jn and err are what it leaves and returns
\* on a live handle.  On a released handle the native call reads freed
\* memory: it may do what it does on a live handle, fail, or crash the
\* process (crash); what the process does after such a call is undefined, and
\* nothing more is said about it.  move: "seek" for a successful seek, "step"
\* for a step that returned a positive count.
Native(name, jn, err, move, crash) ==
    /\ ~fl.called
    /\ ~op.uaf
    /\ crash => op.released > 0
    /\ j' = IF crash THEN j ELSE jn
    /\ op' = [op EXCEPT !.name = name,
                        !.err = IF crash THEN "" ELSE err,
                        !.after = op.released > 0,
                        !.uaf = op.released > 0,
                        !.crashed = crash,
                        !.seeked = IF crash \/ err # "" THEN @
                                   ELSE IF move = "seek" THEN TRUE
                                   ELSE IF move = "step" THEN FALSE
                                   ELSE @]
    /\ UNCHANGED ownerVars

\* A call that returns before any native call.
Early(name, err) ==
    /\ ~fl.called
    /\ ~op.uaf
    /\ op' = [op EXCEPT !.name = name, !.err = err, !.after = op.released > 0,
                        !.uaf = FALSE]
    /\ UNCHANGED <<j, ownerVars>>

CallClose(crash) ==
    /\ ~fl.called
    /\ ~op.uaf
    /\ crash => op.released > 0
    /\ LET r == Close(j, op.released)
       IN /\ j' = r.j
          /\ op' = [op EXCEPT !.name = "Close", !.err = "", !.after = op.released > 0,
                              !.uaf = op.released > 0, !.crashed = crash,
                              !.released = r.released]
    /\ UNCHANGED ownerVars

CallSeekHead(ok, crash) ==
    LET r == SeekHead(j, ok) IN Native("SeekHead", r.j, r.err, "seek", crash)

CallSeekTail(ok, crash) ==
    LET r == SeekTail(j, ok) IN Native("SeekTail", r.j, r.err, "seek", crash)

CallSeekTimestamp(t, ok, crash) ==
    LET r == SeekTimestamp(j, t, ok) IN Native("SeekTimestamp", r.j, r.err, "seek", crash)

CallSeekCursor(c, ok, crash) ==
    LET r == SeekCursor(j, c, ok) IN Native("SeekCursor", r.j, r.err, "seek", crash)

CallNext(ok, crash) ==
    LET r == JournalNext(j, store, ok)
    IN Native("Next", r.j, r.err, IF r.ret > 0 THEN "step" ELSE "", crash)

CallPrevious(ok, crash) ==
    LET r == JournalPrevious(j, store, ok)
    IN Native("Previous", r.j, r.err, IF r.ret > 0 THEN "step" ELSE "", crash)

CallSkip(n, ok, crash) ==
    LET r == Skip(j, store, n, ok)
    IN IF r.native
       THEN Native("Skip", r.j, r.err, IF r.ret > 0 THEN "step" ELSE "", crash)
       ELSE ~crash /\ Early("Skip", r.err)

CallCursor(ok, crash) ==
    Native("Cursor", j, Cursor(j, ok).err, "", crash)

CallReadEntry(ok, crash) ==
    Native("ReadEntry", j, ReadEntry(j, store, ok).errno, "", crash)

CallAddMatch(m, fail, crash) ==
    /\ Len(j.matches) < MaxAdds
    /\ LET r == AddMatch(j, m, fail) IN Native("AddMatch", r.j, r.err, "", crash)

CallFlushMatches(crash) ==
    Native("FlushMatches", FlushMatches(j), "", "", crash)

ConnNext ==
    \/ \E e \in EntryPool : Submit(e)
    \/ \E crash \in BOOLEAN : CallClose(crash)
    \/ \E ok, crash \in BOOLEAN : CallSeekHead(ok, crash)
    \/ \E ok, crash \in BOOLEAN : CallSeekTail(ok, crash)
    \/ \E t \in 1..MaxStore, ok, crash \in BOOLEAN : CallSeekTimestamp(t, ok, crash)
    \/ \E c \in 0..MaxStore, ok, crash \in BOOLEAN : CallSeekCursor(c, ok, crash)
    \/ \E ok, crash \in BOOLEAN : CallNext(ok, crash)
    \/ \E ok, crash \in BOOLEAN : CallPrevious(ok, crash)
    \/ \E n \in (0 - MaxSkip)..MaxSkip, ok, crash \in BOOLEAN : CallSkip(n, ok, crash)
    \/ \E ok, crash \in BOOLEAN : CallCursor(ok, crash)
    \/ \E ok, crash \in BOOLEAN : CallReadEntry(ok, crash)
    \/ \E m \in MatchPool, fail \in Fails, crash \in BOOLEAN : CallAddMatch(m, fail, crash)
    \/ \E crash \in BOOLEAN : CallFlushMatches(crash)

ConnSpec == Init /\ [][ConnNext]_vars

\* ---- Matches applied to a Journal, and what the Journal then yields

Fields2 == {"A", "B"}
\* The store's entries: every combination of values of the fields A and B.
PairSeq ==
    <<[A |-> "x", B |-> "x"], [A |-> "x", B |-> "y"],
      [A |-> "y", B |-> "x"], [A |-> "y", B |-> "y"]>>

RECURSIVE Pick(_, _)
Pick(S, i) ==
    IF i > Len(PairSeq) THEN <<>>
    ELSE IF i \in S THEN <<PairSeq[i]>> \o Pick(S, i + 1)
    ELSE Pick(S, i + 1)

\* The stores: up to MaxStore different entries.
PairStores ==
    {Pick(S, 1) : S \in {T \in SUBSET (1..Len(PairSeq)) : Cardinality(T) <= MaxStore}}

\* Match(A,x).Match(B,y), Match(A,x).Or().Match(B,y) and Match(F,x,y).
TwoNodes(a, x, b, y) == Match(Match(NewMatch, a, <<x>>), b, <<y>>)
OrNodes(a, x, b, y) == Match(Or(Match(NewMatch, a, <<x>>)), b, <<y>>)
AndNodes(a, x, b, y) == Match(And(Match(NewMatch, a, <<x>>)), b, <<y>>)
TwoValues(f, x, y) == Match(NewMatch, f, <<x, y>>)

MatchPtrs ==
    {NilMatch, NewMatch, AndNodes("A", "x", "B", "y")}
    \cup {TwoNodes(a, x, b, y) : a \in Fields2, b \in Fields2, x \in Vals, y \in Vals}
    \cup {OrNodes(a, x, b, y) : a \in Fields2, b \in Fields2, x \in Vals, y \in Vals}
    \cup {TwoValues(f, x, y) : f \in Fields2, x \in Vals, y \in Vals}

\* The native call that fails: none, the first, the second value of the
\* first node, or the last node's.
PtrFails == {{}, {<<1, 1>>}, {<<1, 2>>}, {<<2, 1>>}, {<<3, 1>>}}

\* What a reader gets: SeekHead, then Next and ReadEntry until Next finds
\* nothing (the cursors of the entries read, at most n of them).
RECURSIVE ReadAll(_, _, _)
ReadAll(jn, st, n) ==
    LET r == JournalNext(jn, st, TRUE)
    IN IF n = 0 \/ r.ret = 0 THEN {}
       ELSE {ReadEntry(r.j, st, TRUE).entry[1].cursor} \cup ReadAll(r.j, st, n - 1)

Yielded(jn, st) == ReadAll(SeekHead(jn, TRUE).j, st, Len(st))

NoApply ==
    [name |-> "", m |-> NilMatch, err |-> "", fresh |-> FALSE, before |-> NewJournal,
     adds |-> 0, failed |-> FALSE]

\* A newly opened Journal on any of the stores; no Follow, no Close.
MatchInit ==
    /\ store \in PairStores
    /\ j = NewJournal
    /\ fl = NotCalled
    /\ args = [cursor |-> 0, matches |-> <<>>, eof |-> FALSE]
    /\ once = FALSE
    /\ done = 0
    /\ blocked = 0
    /\ stopCalls = 0
    /\ pc = "none"
    /\ jour = NewJournal
    /\ wi = 1
    /\ calls = <<>>
    /\ closes = 0
    /\ afterStop = 0
    /\ quiet = "dirty"
    /\ op = NoApply
    /\ mutex = 0
    /\ gor = <<>>
    /\ native = <<>>

\* A native call of AddMatch(p) fails: a failing place that lies in the
\* Match, with no error returned before its node.
NativeCallFails(jn, p, fail) ==
    /\ ~p.nil
    /\ \E f \in fail :
           /\ f[1] <= Len(p.expr)
           /\ f[2] <= (IF p.expr[f[1]].op = matchOpField
                       THEN Len(p.expr[f[1]].values) ELSE 1)
           /\ AddNodes(jn.sdJournal, SubSeq(p.expr, 1, f[1] - 1), 1, fail).err = ""

\* jour.AddMatch(p).  fresh: the native filter was empty before the call;
\* failed: a native call failed in it.
ApplyMatch(p, fail) ==
    /\ (p.nil \/ Len(p.expr) = 0) \/ op.adds < MaxAdds
    /\ LET r == AddMatchPtr(j, p, fail)
       IN /\ j' = r.j
          /\ op' = [name |-> "AddMatch", m |-> p, err |-> r.err,
                    fresh |-> (j.sdJournal.flt = NoFilter), before |-> j,
                    failed |-> NativeCallFails(j, p, fail),
                    adds |-> IF p.nil \/ Len(p.expr) = 0 THEN op.adds ELSE op.adds + 1]
    /\ UNCHANGED ownerVars

\* jour.FlushMatches()
ApplyFlush ==
    /\ op.name # "FlushMatches"
    /\ j' = FlushMatches(j)
    /\ op' = [op EXCEPT !.name = "FlushMatches", !.m = NilMatch, !.err = "",
                        !.fresh = FALSE, !.before = j, !.failed = FALSE]
    /\ UNCHANGED ownerVars

MatchNext ==
    \/ \E p \in MatchPtrs, fail \in PtrFails : ApplyMatch(p, fail)
    \/ ApplyFlush

MatchSpec == MatchInit /\ [][MatchNext]_vars


\* ------------------------------------------- SubmitWithFields (send.go)
\* Field names, values and messages are strings: sequences of characters.
\* A Fields map is a function from names to values.  A record of the store
\* is the set of <<name, value>> pairs the store (and ReadEntry, with
\* strings.SplitN(msg, "=", 2)) reads out of the "NAME=value" strings written.

FieldPriority == <<"P", "R", "I", "O", "R", "I", "T", "Y">>
FieldMessage == <<"M", "E", "S", "S", "A", "G", "E">>

LowerChars == {"c", "u", "s", "t", "o", "m", "f"}
ToUpperChar(c) ==
    CASE c = "c" -> "C" [] c = "u" -> "U" [] c = "s" -> "S" [] c = "t" -> "T"
      [] c = "o" -> "O" [] c = "m" -> "M" [] c = "f" -> "F" [] OTHER -> c
\* strings.ToUpper
ToUpper(k) == [i \in 1..Len(k) |-> ToUpperChar(k[i])]

DigitChars == <<"0", "1", "2", "3", "4", "5", "6", "7", "8", "9">>
\* strconv.Itoa
RECURSIVE Itoa(_)
Itoa(n) ==
    IF n < 0 THEN <<"-">> \o Itoa(0 - n)
    ELSE IF n < 10 THEN <<DigitChars[n + 1]>>
    ELSE Itoa(n \div 10) \o <<DigitChars[(n % 10) + 1]>>

\* for k, v := range f { ... }: ord is the order in which the map hands out
\* its keys.  The error of the first name that fails a test, or the
\* "NAME=value" strings of all fields.
RECURSIVE EncodeFields(_, _, _)
EncodeFields(f, ord, i) ==
    IF i > Len(ord) THEN [err |-> "", iov |-> <<>>]
    ELSE LET k == ord[i]
         IN IF k = <<>>
            THEN [err |-> "Field name must not be empty", iov |-> <<>>]
            ELSE IF k[1] = "_"
            THEN [err |-> "Field name must not begin with the character '_'", iov |-> <<>>]
            ELSE IF ToUpper(k) # k
            THEN [err |-> "Field name must be upper-case", iov |-> <<>>]
            ELSE LET r == EncodeFields(f, ord, i + 1)
                 IN IF r.err # "" THEN r
                    ELSE [err |-> "", iov |-> <<ToUpper(k) \o <<"=">> \o f[k]>> \o r.iov]

\* The orders a map with the keys S can be ranged over in.
Orders(S) ==
    {o \in [1..Cardinality(S) -> S] : \A a, b \in 1..Cardinality(S) : a # b => o[a] # o[b]}

\* The name and the value of a "NAME=value" string: split at the first "=".
SplitN(msg) ==
    LET e == CHOOSE a \in 1..Len(msg) :
                 msg[a] = "=" /\ \A b \in 1..(a - 1) : msg[b] # "="
    IN <<SubSeq(msg, 1, e - 1), SubSeq(msg, e + 1, Len(msg))>>

\* sd_journal_sendv: the record appended to the store.
sd_journal_sendv(st, iov) == Append(st, {SplitN(iov[a]) : a \in 1..Len(iov)})

\* SubmitWithFields that upper-cases the names instead of testing them.
SubmitWithFields_Normalizes(st, p, m, f, ord, ok) ==
    LET f1 == IF FieldPriority \in DOMAIN f THEN f ELSE f @@ (FieldPriority :> Itoa(p))
        f2 == IF FieldMessage \in DOMAIN f1 THEN f1 ELSE f1 @@ (FieldMessage :> m)
        iov == [a \in 1..Len(ord) |-> ToUpper(ord[a]) \o <<"=">> \o f2[ord[a]]]
    IN IF \E a \in 1..Len(ord) : ord[a] = <<>> \/ ord[a][1] = "_"
       THEN [err |-> "Field name must not be empty", f |-> f2, store |-> st]
       ELSE IF ~ok THEN [err |-> "failed to get send entry to journal", f |-> f2,
                         store |-> st]
       ELSE [err |-> "", f |-> f2, store |-> sd_journal_sendv(st, iov)]

\* SubmitWithFields(p, m, f): the error, the caller's map afterwards (the
\* defaults are put into the map that was passed) and the store afterwards.
\* ok = FALSE is a failing sd_journal_sendv.
SubmitWithFields(st, p, m, f, ord, ok) ==
    LET f1 == IF FieldPriority \in DOMAIN f THEN f ELSE f @@ (FieldPriority :> Itoa(p))
        f2 == IF FieldMessage \in DOMAIN f1 THEN f1 ELSE f1 @@ (FieldMessage :> m)
        r == EncodeFields(f2, ord, 1)
    IN IF r.err # "" THEN [err |-> r.err, f |-> f2, store |-> st]
       ELSE IF ~ok THEN [err |-> "failed to get send entry to journal", f |-> f2,
                         store |-> st]
       ELSE [err |-> "", f |-> f2, store |-> sd_journal_sendv(st, r.iov)]

\* The names, values, messages and priorities callers use.
NamePool ==
    {<<>>, <<"_", "f", "o", "o">>, <<"c", "u", "s", "t", "o", "m">>,
     <<"F", "O", "O">>, <<"A", "=", "B">>, FieldPriority, FieldMessage}
ValuePool == {<<"a", "=", "9">>}
MessagePool == {<<>>, <<"h", "i">>}
Priorities == {0, 10}
\* The Fields maps: no, one or two fields.
FieldsPool ==
    UNION {[S -> ValuePool] : S \in {{a, b} : a \in NamePool, b \in NamePool} \cup {{}}}

NoSubmit ==
    [name |-> "", p |-> 0, m |-> <<>>, f |-> <<>>, err |-> "", fafter |-> <<>>,
     before |-> <<>>, n |-> 0, reused |-> FALSE, first |-> <<>>]

\* The store is empty or holds a record from before.
SubmitInit ==
    /\ store \in {<<>>, <<{<<FieldMessage, <<"h", "i">>>>, <<FieldPriority, <<"6">>>>}>>}
    /\ j = NewJournal
    /\ fl = NotCalled
    /\ args = [cursor |-> 0, matches |-> <<>>, eof |-> FALSE]
    /\ once = FALSE
    /\ done = 0
    /\ blocked = 0
    /\ stopCalls = 0
    /\ pc = "none"
    /\ jour = NewJournal
    /\ wi = 1
    /\ calls = <<>>
    /\ closes = 0
    /\ afterStop = 0
    /\ quiet = "dirty"
    /\ op = NoSubmit
    /\ mutex = 0
    /\ gor = <<>>
    /\ native = <<>>

CallSubmitWithFields(p, m, f, ok) ==
    /\ op.n < MaxSubmits
    /\ ~op.reused
    /\ \E ord \in Orders(DOMAIN f \cup {FieldPriority, FieldMessage}) :
          LET r == SubmitWithFields(store, p, m, f, ord, ok)
          IN /\ store' = r.store
             /\ op' = [name |-> "SubmitWithFields", p |-> p, m |-> m, f |-> f,
                       err |-> r.err, fafter |-> r.f, before |-> store, n |-> op.n + 1,
                       reused |-> FALSE, first |-> f]
    /\ UNCHANGED <<j, fl, args, stopVars, pc, jour, wi, calls, closes, afterStop, quiet,
                   concVars>>

\* The caller of the last SubmitWithFields passes the same map again, as
\* the call left it.  first: the map as it was before the first of the two
\* calls.
CallSubmitSameMap(p, m, ok) ==
    /\ op.name = "SubmitWithFields"
    /\ ~op.reused
    /\ \E ord \in Orders(DOMAIN op.fafter \cup {FieldPriority, FieldMessage}) :
          LET r == SubmitWithFields(store, p, m, op.fafter, ord, ok)
          IN /\ store' = r.store
             /\ op' = [name |-> "SubmitWithFields", p |-> p, m |-> m, f |-> op.fafter,
                       err |-> r.err, fafter |-> r.f, before |-> store, n |-> op.n,
                       reused |-> TRUE, first |-> op.f]
    /\ UNCHANGED <<j, fl, args, stopVars, pc, jour, wi, calls, closes, afterStop, quiet,
                   concVars>>

SubmitNext ==
    \/ \E p \in Priorities, m \in MessagePool, f \in FieldsPool, ok \in BOOLEAN :
           CallSubmitWithFields(p, m, f, ok)
    \/ \E p \in Priorities, m \in MessagePool, ok \in BOOLEAN :
           CallSubmitSameMap(p, m, ok)

SubmitSpec == SubmitInit /\ [][SubmitNext]_vars

\* --------------------------------------------- Journal.Wait by itself
\* op is the last call of Wait: the timeout given, the timeout handed to the
\* library, what came back, and whether the call is still waiting.

\* The timeouts given: waitTimeout, and around every whole number of
\* microseconds up to MaxMicros, in either direction, the durations one
\* nanosecond and just under a microsecond away from it.
Durations ==
    {q * Microsecond + r : q \in (0 - MaxMicros)..MaxMicros,
                           r \in {0 - (Microsecond - 1), -1, 0, 1, Microsecond - 1}}
    \cup {waitTimeout}

NoWait ==
    [name |-> "", timeout |-> 0, t |-> Uint64(0), event |-> NoOperation, err |-> "",
     waiting |-> FALSE]

WaitInit ==
    /\ store = <<>>
    /\ j = NewJournal
    /\ fl = NotCalled
    /\ args = [cursor |-> 0, matches |-> <<>>, eof |-> FALSE]
    /\ once = FALSE
    /\ done = 0
    /\ blocked = 0
    /\ stopCalls = 0
    /\ pc = "none"
    /\ jour = NewJournal
    /\ wi = 1
    /\ calls = <<>>
    /\ closes = 0
    /\ afterStop = 0
    /\ quiet = "dirty"
    /\ op = NoWait
    /\ mutex = 0
    /\ gor = <<>>
    /\ native = <<>>

\* j.Wait(d): it returns, or it stays in the library when nothing is queued
\* and no timeout was handed over.
CallWait(d, ok) ==
    /\ ~op.waiting
    /\ IF Wait(j, d, ok) = {}
       THEN /\ op' = [name |-> "Wait", timeout |-> d, t |-> WaitTimeout(d),
                      event |-> NoOperation, err |-> "", waiting |-> TRUE]
            /\ j' = j
       ELSE \E r \in Wait(j, d, ok) :
               /\ op' = [name |-> "Wait", timeout |-> d, t |-> WaitTimeout(d),
                         event |-> r.event, err |-> r.err, waiting |-> FALSE]
               /\ j' = r.j
    /\ UNCHANGED ownerVars

\* A change arrives for a Wait that is in the library.
WaitReturns ==
    /\ op.waiting
    /\ \E r \in Wait(j, op.timeout, TRUE) :
          /\ op' = [op EXCEPT !.event = r.event, !.waiting = FALSE]
          /\ j' = r.j
    /\ UNCHANGED ownerVars

WaitNext ==
    \/ \E e \in EntryPool : Submit(e)
    \/ \E d \in Durations, ok \in BOOLEAN : CallWait(d, ok)
    \/ WaitReturns

WaitSpec == WaitInit /\ [][WaitNext]_vars

\* ------------------------- goroutines sharing one Journal (journal.go)
\* Every method of Journal brackets its native calls with j.mutex.Lock() and
\* j.mutex.Unlock(); AddMatch does so once per node, and appends to j.matches
\* after the loop, outside the mutex.

\* sync.Mutex: Lock goes through when the mutex is free.
MutexLock_NoWait(mu, g) == [free |-> TRUE, mutex |-> g]
MutexLock(mu, g) == [free |-> mu = 0, mutex |-> g]
MutexUnlock(mu) == 0

Goroutines == 1..MaxGoroutines
CallNames == {"SeekHead", "Next", "FlushMatches"}
ConcMatches == {NewMatch, TwoNodes("A", "x", "B", "y"), OrNodes("A", "y", "B", "x")}

\* A goroutine between calls.  seq counts its calls, node is the node of m
\* that AddMatch is at, seen the j.matches that its append has read.
Idle ==
    [pc |-> "idle", name |-> "", m |-> NilMatch, node |-> 0, seq |-> 0,
     seen |-> <<>>]

ConcInit ==
    /\ store = <<PairSeq[2]>>
    /\ j = NewJournal
    /\ fl = NotCalled
    /\ args = [cursor |-> 0, matches |-> <<>>, eof |-> FALSE]
    /\ once = FALSE
    /\ done = 0
    /\ blocked = 0
    /\ stopCalls = 0
    /\ pc = "none"
    /\ jour = NewJournal
    /\ wi = 1
    /\ calls = <<>>
    /\ closes = 0
    /\ afterStop = 0
    /\ quiet = "dirty"
    /\ op = NoCall
    /\ mutex = 0
    /\ gor = [g \in Goroutines |-> Idle]
    /\ native = <<>>

RECURSIVE SumSeq(_)
SumSeq(g) == IF g = 0 THEN 0 ELSE gor[g].seq + SumSeq(g - 1)
\* The calls begun so far.
CallsMade == SumSeq(MaxGoroutines)

sharedVars ==
    <<store, fl, args, stopVars, pc, jour, wi, calls, closes, afterStop, quiet, op>>

\* Goroutine g calls SeekHead, Next or FlushMatches: it goes for the
\* mutex.
GoCall(g, name) ==
    /\ gor[g].pc = "idle"
    /\ CallsMade < MaxCalls
    /\ gor' = [gor EXCEPT ![g] = [Idle EXCEPT !.pc = "lock", !.name = name,
                                              !.seq = gor[g].seq + 1]]
    /\ UNCHANGED <<j, mutex, native, sharedVars>>

\* Goroutine g calls AddMatch(p): the test of p, then the first node.
GoAddMatch(g, p) ==
    /\ gor[g].pc = "idle"
    /\ CallsMade < MaxCalls
    /\ gor' = [gor EXCEPT ![g] =
                  IF p.nil \/ Len(p.expr) = 0
                  THEN [Idle EXCEPT !.name = "AddMatch", !.seq = gor[g].seq + 1]
                  ELSE [Idle EXCEPT !.pc = "lock", !.name = "AddMatch", !.m = p,
                                    !.node = 1, !.seq = gor[g].seq + 1]]
    /\ UNCHANGED <<j, mutex, native, sharedVars>>

\* j.mutex.Lock() and the entry into the native call.
GoLock(g) ==
    /\ gor[g].pc = "lock"
    /\ LET r == MutexLock(mutex, g)
       IN /\ r.free
          /\ mutex' = r.mutex
    /\ gor' = [gor EXCEPT ![g].pc = "native"]
    /\ native' = Append(native, [g |-> g, seq |-> gor[g].seq, name |-> gor[g].name,
                                 m |-> gor[g].m, node |-> gor[g].node, err |-> ""])
    /\ UNCHANGED <<j, sharedVars>>

\* The place in native of the native call that goroutine g is in.
Current(g) == CHOOSE a \in DOMAIN native :
                  /\ native[a].g = g
                  /\ \A b \in DOMAIN native : native[b].g = g => b <= a

\* The native call returns and j.mutex.Unlock() follows; ok = FALSE is a
\* native call that fails.  AddMatch goes on to its next node, or to the
\* append when the last node is in.
GoReturn(g, ok) ==
    /\ gor[g].pc = "native"
    /\ mutex' = MutexUnlock(mutex)
    /\ LET c == gor[g]
           r == CASE c.name = "SeekHead" -> SeekHead(j, ok)
                  [] c.name = "Next" ->
                         [j |-> JournalNext(j, store, ok).j,
                          err |-> JournalNext(j, store, ok).err]
                  [] c.name = "FlushMatches" -> [j |-> FlushMatches(j), err |-> ""]
                  [] OTHER ->
                         LET a == AddNode(j.sdJournal, c.m.expr[c.node], c.node,
                                          IF ok THEN {} ELSE {<<c.node, 1>>})
                         IN [j |-> [j EXCEPT !.sdJournal = a.h],
                             err |-> IF a.ret < 0 THEN "failed to add match" ELSE ""]
       IN /\ j' = r.j
          /\ gor' = [gor EXCEPT ![g] =
                        IF c.name # "AddMatch" \/ r.err # ""
                        THEN [c EXCEPT !.pc = "idle"]
                        ELSE IF c.node < Len(c.m.expr)
                        THEN [c EXCEPT !.pc = "lock", !.node = c.node + 1]
                        ELSE [c EXCEPT !.pc = "append"]]
          /\ native' = [native EXCEPT ![Current(g)].err = r.err]
    /\ UNCHANGED sharedVars

\* j.matches = append(j.matches, m), outside the mutex: the read of
\* j.matches and the write are two steps, and another goroutine's append may
\* come between them.
GoReadMatches(g) ==
    /\ gor[g].pc = "append"
    /\ gor' = [gor EXCEPT ![g].pc = "store", ![g].seen = j.matches]
    /\ UNCHANGED <<j, mutex, native, sharedVars>>

GoWriteMatches(g) ==
    /\ gor[g].pc = "store"
    /\ j' = [j EXCEPT !.matches = Append(gor[g].seen, gor[g].m.expr)]
    /\ gor' = [gor EXCEPT ![g].pc = "idle", ![g].seen = <<>>]
    /\ UNCHANGED <<mutex, native, sharedVars>>

ConcNext ==
    \/ \E g \in Goroutines, name \in CallNames : GoCall(g, name)
    \/ \E g \in Goroutines, p \in ConcMatches : GoAddMatch(g, p)
    \/ \E g \in Goroutines : GoLock(g)
    \/ \E g \in Goroutines, ok \in BOOLEAN : GoReturn(g, ok)
    \/ \E g \in Goroutines : GoReadMatches(g)
    \/ \E g \in Goroutines : GoWriteMatches(g)

ConcSpec == ConcInit /\ [][ConcNext]_vars

\* ---------------------------------------------------------- properties

\* The calls that carry an entry / that carry none.
EntryCalls == {n \in 1..Len(calls) : calls[n].entry # <<>>}
TerminalCalls == {n \in 1..Len(calls) : calls[n].entry = <<>>}
Delivered == {calls[n].entry[1].cursor : n \in EntryCalls}
\* The worker's filter: what replaying the retained Matches gave it.
WorkerFilter == jour.sdJournal.flt
OwnerFilter == j.sdJournal.flt
OperationFailed == \E n \in TerminalCalls : calls[n].err \notin {ErrFollowStopped, ErrTailStopped}

\* C1: within one Follow / Tail session the entries handed to the handler
\* have strictly increasing cursors (so none is handed over twice), each is
\* the store's entry at that cursor, and no entry between two delivered ones
\* that passes the session's filter was left out.
C1_OrderedNoGapNoDup ==
    /\ \A m, n \in EntryCalls :
           m < n => calls[m].entry[1].cursor < calls[n].entry[1].cursor
    /\ \A n \in EntryCalls :
           /\ calls[n].entry[1].cursor \in 1..Len(store)
           /\ calls[n].entry[1].fields = store[calls[n].entry[1].cursor]
           /\ EntryMatches(calls[n].entry[1].fields, WorkerFilter)
    /\ \A a, b \in Delivered : \A k \in 1..Len(store) :
           (a < k /\ k < b /\ EntryMatches(store[k], WorkerFilter)) => k \in Delivered

\* Two entries were delivered around one the filter rejects, after a wait
\* that reported Invalidate or Append.
C1_Witness ==
    /\ jour.sdJournal.watching
    /\ \E a, b \in Delivered : b > a + 1

\* The owner's native filter is what replaying its retained Matches gives.
\* FlushMatches clears the native filter and keeps the retained list, so
\* this is no invariant.
RECURSIVE Replay(_, _, _)
Replay(h, ms, i) ==
    IF i > Len(ms) THEN h ELSE Replay(AddNodes(h, ms[i], 1, {}).h, ms, i + 1)
FiltersInSync == Replay(NewHandle, j.matches, 1).flt = OwnerFilter

\* The worker has left entry k behind: it stands on k or beyond with nothing
\* in hand, or beyond k with the entry it found still to be read.
WorkerPast(k) ==
    /\ jour.sdJournal.loc = "at"
    /\ \/ pc \in {"next", "waitselect", "wait"} /\ jour.sdJournal.idx >= k
       \/ pc \in {"readselect", "read"} /\ jour.sdJournal.idx > k

\* C2: Follow started at the tail, no stop request, no failed operation: an
\* entry submitted afterwards (one that passes the owner's filter and the
\* worker's) is handed to the handler exactly once; the worker never leaves
\* it behind undelivered.
C2_SubmittedEntryDelivered ==
    (fl.stop /\ args.eof /\ stopCalls = 0 /\ ~OperationFailed) =>
        \A k \in (fl.len + 1)..Len(store) :
            /\ Cardinality({n \in EntryCalls : calls[n].entry[1].cursor = k}) <= 1
            /\ (/\ EntryMatches(store[k], OwnerFilter)
                /\ EntryMatches(store[k], WorkerFilter)
                /\ WorkerPast(k)) => k \in Delivered

\* C3: any number of stop calls in any worker state: no caller blocks on the
\* done channel, the channel never holds more than its one slot, the worker's
\* handle is closed at most once and the handler gets at most one terminal
\* notification.
C3_StopIdempotent ==
    /\ blocked = 0
    /\ done <= 1
    /\ closes <= 1
    /\ Cardinality(TerminalCalls) <= 1

\* The stop function was called twice after the worker had already left on
\* a failed operation.
C3_Witness ==
    /\ stopCalls >= 2
    /\ pc = "exited"
    /\ OperationFailed
    /\ done = 1

\* C4: after the stop function was called the handler gets at most one more
\* entry.
C4_AtMostOneAfterStop == afterStop <= 1

\* One entry was delivered after the stop call, then the stop sentinel.
C4_Witness ==
    /\ afterStop = 1
    /\ pc = "exited"
    /\ calls[Len(calls)].err = Sentinel(fl.api)

\* C5: Follow started at the tail and stopped before anything was submitted:
\* the handler is never given an entry, is invoked at most once, and once
\* the worker has left it was invoked exactly once, with nil and the bare
\* stop sentinel of the API used (unless an operation failed).
C5_QuietStop ==
    (quiet = "quiet" /\ args.eof) =>
        /\ EntryCalls = {}
        /\ Len(calls) <= 1
        /\ pc = "exited" =>
               /\ Len(calls) = 1
               /\ OperationFailed \/ calls[1] = [entry |-> <<>>, err |-> Sentinel(fl.api)]

\* The worker left with the sentinel as its only call although an entry
\* was submitted after the stop call.
C5_Witness ==
    /\ quiet = "quiet"
    /\ args.eof
    /\ pc = "exited"
    /\ calls = <<[entry |-> <<>>, err |-> Sentinel(fl.api)]>>
    /\ Len(store) > fl.len

\* C6: once the stop function has been called, the worker reaches a
\* checkpoint, hands the handler its single terminal notification and exits.
C6_StopLeadsToExit ==
    (stopCalls > 0) ~> (pc = "exited" /\ Cardinality(TerminalCalls) = 1)

\* The worker was stopped and left with the stop sentinel while an entry it
\* had found was still undelivered.
C6_Witness ==
    /\ pc = "exited"
    /\ calls[Len(calls)].err = Sentinel(fl.api)
    /\ jour.sdJournal.loc = "at"
    /\ jour.sdJournal.idx \notin Delivered
    /\ Len(store) = MaxStore


\* C7: every handler invocation has exactly one of entry and error non-nil;
\* an error is delivered once, as the last invocation, and the worker is
\* gone after it: the failed operation is not tried again.
C7_ErrorIsTerminal ==
    /\ \A n \in 1..Len(calls) : (calls[n].entry = <<>>) # (calls[n].err = "")
    /\ Cardinality(TerminalCalls) <= 1
    /\ \A n \in TerminalCalls : n = Len(calls) /\ pc = "exited"
    /\ pc = "exited" => (TerminalCalls # {} /\ ~ENABLED WorkerStep)

\* An entry was delivered, then ReadEntry failed on the next one.
C7_Witness ==
    /\ pc = "exited"
    /\ Len(calls) >= 2
    /\ calls[Len(calls)] = [entry |-> <<>>, err |-> "failed to read entry"]
    /\ calls[1].entry # <<>>

\* C8: a first cursor read that fails with another error than EADDRNOTAVAIL
\* makes Follow return that error, no stop function, and start no worker.
C8_CursorErrorIsSynchronous ==
    (fl.called /\ fl.cerr \notin {"", "EADDRNOTAVAIL"}) =>
        /\ fl.err = fl.cerr
        /\ ~fl.stop
        /\ pc = "none"

\* C9: whenever the owner's cursor addresses no entry (and no native call of
\* Follow fails otherwise), Follow takes the at-tail path and returns a stop
\* function, whatever the store holds.
C9_FollowsFromTail ==
    (fl.called /\ fl.cerr = "EADDRNOTAVAIL" /\ fl.err # "ENOMEM") =>
        /\ fl.stop
        /\ fl.err = ""
        /\ args.eof

\* C10: on the at-tail path every delivered entry is newer than the captured
\* cursor, no entry that existed when Follow was called is delivered, and an
\* entry submitted after the capture that passes the filters is not left
\* behind by the worker.
C10_OnlyNewerAndAllNewer ==
    (fl.stop /\ args.eof) =>
        /\ \A d \in Delivered : d > args.cursor /\ d > fl.len
        /\ (stopCalls = 0 /\ ~OperationFailed) =>
               \A k \in (fl.len + 1)..Len(store) :
                   (/\ EntryMatches(store[k], OwnerFilter)
                    /\ EntryMatches(store[k], WorkerFilter)
                    /\ WorkerPast(k)) => k \in Delivered

\* What remains of C2, C5 and C10 when the worker's filter is the owner's:
\* each holds for a session started while FiltersInSync.
InSync_C2_C5_C10 ==
    FiltersInSync =>
        /\ C2_SubmittedEntryDelivered
        /\ C5_QuietStop
        /\ C10_OnlyNewerAndAllNewer

\* The worker has replayed every retained Match and not yet left.
Replayed ==
    pc \in {"seek", "eofnext", "next", "waitselect", "wait", "readselect", "read"}

\* C11: whatever AddMatch and FlushMatches calls the owner made before Follow,
\* the worker's connection, once the retained Matches are replayed onto it,
\* passes exactly the entries the owner's connection passes.
C11_WorkerFilterIsOwners ==
    Replayed =>
        \A e \in EntryPool : EntryMatches(e, WorkerFilter) <=> EntryMatches(e, OwnerFilter)

\* C12: whatever the calls on a Journal, its native handle is released at
\* most once; a second Close releases nothing.
C12_ReleasedOnce == op.released <= 1

\* C13: a call other than Close made after Close fails with the closed-handle
\* error and makes no native call on the released handle.
C13_ClosedHandleError ==
    (op.after /\ op.name # "Close") =>
        /\ op.err = "ClosedHandle"
        /\ ~op.uaf
        /\ ~op.crashed

\* C14: on an open Journal, from a successful SeekHead, SeekTail,
\* SeekTimestamp or SeekCursor until a Next, Previous or Skip returns a
\* positive count, Cursor and ReadEntry fail with EADDRNOTAVAIL (no current
\* entry).
C14_SeekNotReadable ==
    (op.released = 0 /\ op.seeked /\ op.name \in {"Cursor", "ReadEntry"}) =>
        op.err = "EADDRNOTAVAIL"

\* ReadEntry failed after a seek to the cursor of an existing entry and a
\* Previous that found nothing to step to.
C14_Witness ==
    /\ op.released = 0
    /\ op.seeked
    /\ op.name = "ReadEntry"
    /\ op.err = "EADDRNOTAVAIL"
    /\ j.sdJournal.loc = "seek"
    /\ j.sdJournal.idx \in 1..Len(store)
    /\ j.sdJournal.flt # NoFilter

\* The last call applied p to a Journal with an empty filter and returned nil.
Applied(p) ==
    /\ op.name = "AddMatch"
    /\ op.m = p
    /\ op.err = ""
    /\ op.fresh

Holds(i, f, v) == store[i][f] = v

\* C15: AddMatch with nil or with a Match without nodes returns an error and
\* leaves the Journal as it was: the native filter (no native call was made)
\* and the retained Matches.
C15_EmptyMatchRejected ==
    (op.name = "AddMatch" /\ (op.m.nil \/ Len(op.m.expr) = 0)) =>
        /\ op.err # ""
        /\ j = op.before

\* A Match without nodes was rejected on a Journal that holds a filter and a
\* retained Match.
C15_Witness ==
    /\ op.name = "AddMatch"
    /\ op.m = NewMatch
    /\ op.err = "no match expression to add"
    /\ Len(j.matches) = 1
    /\ j.sdJournal.flt # NoFilter

\* C16 as claimed: with Match(A,x).Match(B,y) applied, every entry the
\* Journal yields has A = x and B = y, for all fields A and B, A = B included.
C16_ImplicitAnd ==
    \A a \in Fields2, b \in Fields2, x \in Vals, y \in Vals :
        Applied(TwoNodes(a, x, b, y)) =>
            \A i \in Yielded(j, store) : Holds(i, a, x) /\ Holds(i, b, y)

\* C16 amended: for different fields A and B the Journal yields exactly the
\* entries with A = x and B = y; for one field F, Match(F,x).Match(F,y) yields
\* exactly the entries with F = x or F = y.
C16_ImplicitAndOfDistinctFields ==
    \A a \in Fields2, b \in Fields2, x \in Vals, y \in Vals :
        Applied(TwoNodes(a, x, b, y)) =>
            Yielded(j, store) =
                IF a # b
                THEN {i \in 1..Len(store) : Holds(i, a, x) /\ Holds(i, b, y)}
                ELSE {i \in 1..Len(store) : Holds(i, a, x) \/ Holds(i, a, y)}

\* Match(A,x).Match(B,y) let one entry of three through.
C16_Witness ==
    /\ Applied(TwoNodes("A", "x", "B", "y"))
    /\ Len(store) = 3
    /\ Yielded(j, store) = {2}

\* C17: with Match(A,x).Or().Match(B,y) applied, the Journal yields exactly
\* the entries with A = x or B = y.
C17_ExplicitOr ==
    \A a \in Fields2, b \in Fields2, x \in Vals, y \in Vals :
        Applied(OrNodes(a, x, b, y)) =>
            Yielded(j, store) = {i \in 1..Len(store) : Holds(i, a, x) \/ Holds(i, b, y)}

\* Match(A,x).Or().Match(B,y) kept one entry of three back.
C17_Witness ==
    /\ Applied(OrNodes("A", "x", "B", "y"))
    /\ Len(store) = 3
    /\ Cardinality(Yielded(j, store)) = 2

\* C18: with the single node Match(F, x, y) applied, the Journal yields
\* exactly the entries whose field F is x or y.
C18_ValuesOfOneField ==
    \A f \in Fields2, x \in Vals, y \in Vals :
        Applied(TwoValues(f, x, y)) =>
            Yielded(j, store) = {i \in 1..Len(store) : Holds(i, f, x) \/ Holds(i, f, y)}

\* The field name breaks a rule: empty, a leading "_", or a lower-case letter.
InvalidName(k) ==
    \/ k = <<>>
    \/ k[1] = "_"
    \/ \E a \in 1..Len(k) : k[a] \in LowerChars

ValidationErrors ==
    {"Field name must not be empty",
     "Field name must not begin with the character '_'",
     "Field name must be upper-case"}

\* C19: a SubmitWithFields call whose field set holds a name that breaks a
\* rule returns a validation error whatever the order the names are tested
\* in, and the store is what it was before: no field of the call is written,
\* under its own name or an upper-cased one.
C19_InvalidNameWritesNothing ==
    (op.name = "SubmitWithFields" /\ \E k \in DOMAIN op.f : InvalidName(k)) =>
        /\ op.err \in ValidationErrors
        /\ store = op.before

\* A call with the valid field FOO and the invalid field custom was rejected
\* on a store that holds a record.
C19_Witness ==
    /\ op.name = "SubmitWithFields"
    /\ DOMAIN op.f = {<<"F", "O", "O">>, <<"c", "u", "s", "t", "o", "m">>}
    /\ op.err = "Field name must be upper-case"
    /\ Len(store) = 1

\* The values the record r holds for the name k.
ValuesOf(r, k) == {q[2] : q \in {x \in r : x[1] = k}}

\* The number a string of decimal digits stands for; -1 for any other string.
RECURSIVE DecimalValue(_)
DecimalValue(d) ==
    IF d = <<>> THEN -1
    ELSE LET S == {a \in 1..10 : DigitChars[a] = d[Len(d)]}
         IN IF S = {} THEN -1
            ELSE IF Len(d) = 1 THEN (CHOOSE a \in S : TRUE) - 1
            ELSE IF DecimalValue(SubSeq(d, 1, Len(d) - 1)) < 1 THEN -1
            ELSE DecimalValue(SubSeq(d, 1, Len(d) - 1)) * 10 + (CHOOSE a \in S : TRUE) - 1

\* C20: the record a successful SubmitWithFields(p, m, f) writes holds as
\* PRIORITY the caller's f[PRIORITY] if there is one and p in decimal
\* otherwise, as MESSAGE f[MESSAGE] if there is one and m otherwise, and every
\* other field of f under its name with its value, and nothing else.
C20_CallerFieldsWin ==
    (op.name = "SubmitWithFields" /\ op.err = "") =>
        LET r == store[Len(store)]
        IN /\ Len(store) = Len(op.before) + 1
           /\ IF FieldPriority \in DOMAIN op.f
              THEN ValuesOf(r, FieldPriority) = {op.f[FieldPriority]}
              ELSE \E d \in ValuesOf(r, FieldPriority) :
                       /\ ValuesOf(r, FieldPriority) = {d}
                       /\ DecimalValue(d) = op.p
           /\ ValuesOf(r, FieldMessage) =
                  {IF FieldMessage \in DOMAIN op.f THEN op.f[FieldMessage] ELSE op.m}
           /\ \A k \in DOMAIN op.f : ValuesOf(r, k) = {op.f[k]}
           /\ {q[1] : q \in r} = DOMAIN op.f \cup {FieldPriority, FieldMessage}

\* C20 for field names without "=".
C20_PlainNames ==
    (\A k \in DOMAIN op.f : \A a \in 1..Len(k) : k[a] # "=") => C20_CallerFieldsWin

\* C21: whatever the goroutines that share a Journal call, at most one native
\* call on its handle is in progress at any time, the goroutine in it holds
\* j.mutex, and the native calls of one goroutine begin in the order of its
\* calls (and, within one AddMatch, of the Match's nodes).
InNative == {g \in Goroutines : gor[g].pc = "native"}

C21_MutexAndProgramOrder ==
    /\ Cardinality(InNative) <= 1
    /\ \A g \in InNative : mutex = g
    /\ \A a, b \in DOMAIN native :
           (a < b /\ native[a].g = native[b].g) =>
               \/ native[a].seq < native[b].seq
               \/ native[a].seq = native[b].seq /\ native[a].node < native[b].node

\* C21 (witness): one goroutine is in the native call of the second node of
\* its Match while another, whose first node is in, waits for the mutex.
C21_Witness ==
    \E g, k \in Goroutines :
        /\ gor[g].pc = "native"
        /\ gor[g].node = 2
        /\ gor[k].pc = "lock"
        /\ gor[k].node = 2

\* C22: a Wait with a negative timeout hands the infinite timeout
\* (2^64 - 1 microseconds) to the library, whatever the negative value.
C22_NegativeIsInfinite ==
    (op.name = "Wait" /\ op.timeout < 0) => op.t = MaxUint64

\* C22: what holds instead.  The timeout handed over is infinite for -1ns
\* and for the durations that truncate to -1 microsecond; other negative
\* durations give 0 (above -1 microsecond) or 2^64 - q microseconds.
C22_OnlyMinusOne ==
    (op.name = "Wait" /\ op.timeout < 0) =>
        (op.t = MaxUint64 <=>
            (op.timeout = -1 \/ Quot(op.timeout, Microsecond) = -1))

\* The last call was an AddMatch in which a native call failed.
NativeCallFailed == op.name = "AddMatch" /\ op.failed

\* C23: when a native call of AddMatch fails, for whichever node or value,
\* AddMatch returns an error and the Journal retains the Matches it retained
\* before.
C23_FailureSurfaced ==
    NativeCallFailed => (op.err # "" /\ j.matches = op.before.matches)

\* C23: the failures that are surfaced are those of the last native call
\* of a node.
C23_LastValueSurfaced ==
    (NativeCallFailed /\ \A n \in DOMAIN op.m.expr :
                             Len(op.m.expr[n].values) <= 1)
        => (op.err # "" /\ j.matches = op.before.matches)

\* The places in native of the native calls of call seq of goroutine g.
CallPlaces(g, seq) ==
    {a \in DOMAIN native : native[a].g = g /\ native[a].seq = seq}

\* The AddMatch calls that compiled their last node, as <<g, seq>>.
Compiled ==
    {c \in Goroutines \X (1..MaxCalls) :
        \E a \in CallPlaces(c[1], c[2]) :
            /\ native[a].name = "AddMatch"
            /\ native[a].node = Len(native[a].m.expr)
            /\ native[a].err = ""
            /\ ~(gor[c[1]].seq = c[2] /\ gor[c[1]].pc = "native")}

\* The Matches of the AddMatch calls in S in the order in which their first
\* nodes reached the library.
RECURSIVE InCompileOrder(_, _)
InCompileOrder(S, a) ==
    IF a > Len(native) THEN <<>>
    ELSE IF native[a].node = 1 /\ <<native[a].g, native[a].seq>> \in S
         THEN <<native[a].m.expr>> \o InCompileOrder(S, a + 1)
         ELSE InCompileOrder(S, a + 1)

\* No call is under way, the calls so far were AddMatch calls, and every
\* native call returned without an error.
AllAdded ==
    /\ \A g \in Goroutines : gor[g].pc = "idle"
    /\ \A a \in DOMAIN native : native[a].name = "AddMatch" /\ native[a].err = ""

\* No node of another goroutine's AddMatch reaches the library between two
\* nodes of one AddMatch call.
Contiguous ==
    \A a, b, c \in DOMAIN native :
        (a < b /\ b < c /\ native[a].name = "AddMatch" /\ native[b].name = "AddMatch"
           /\ native[a].g = native[c].g /\ native[a].seq = native[c].seq)
            => native[b].g = native[a].g

\* Once the AddMatch calls are over, j.matches holds their Matches in the
\* order in which they were compiled.
RetainedInOrder == AllAdded => j.matches = InCompileOrder(Compiled, 1)

\* C24: the nodes of the Match of every AddMatch call reach the native
\* filter one after the other, not interleaved with the nodes of another
\* goroutine's AddMatch, and once the calls are over j.matches holds their
\* Matches in the order in which they were compiled.
C24_AddMatchNotInterleaved == Contiguous /\ RetainedInOrder

\* C24: what does hold.  The nodes of one Match reach the library in the
\* Match's declaration order, and j.matches holds no Match that was not
\* compiled to its last node.
C24_DeclarationOrder ==
    /\ \A a, b \in DOMAIN native :
           (a < b /\ native[a].g = native[b].g /\ native[a].seq = native[b].seq)
               => native[a].node < native[b].node
    /\ \A i \in DOMAIN j.matches :
           \E a \in DOMAIN native : native[a].name = "AddMatch"
                                      /\ native[a].m.expr = j.matches[i]
                                      /\ native[a].node = Len(j.matches[i])
                                      /\ native[a].err = ""

\* The caller's map is after the call what it was before it.
MapUntouched == op.name = "SubmitWithFields" => op.fafter = op.f

\* The record written with a map that was passed before, and that held
\* neither PRIORITY nor MESSAGE at first, carries the priority and the
\* message of the call that wrote it.
OwnArguments ==
    (/\ op.name = "SubmitWithFields"
     /\ op.reused
     /\ op.err = ""
     /\ FieldPriority \notin DOMAIN op.first
     /\ FieldMessage \notin DOMAIN op.first) =>
        /\ ValuesOf(store[Len(store)], FieldPriority) = {Itoa(op.p)}
        /\ ValuesOf(store[Len(store)], FieldMessage) = {op.m}

\* C25: SubmitWithFields leaves the map it is given as it was, whether it
\* succeeds or fails, and a record written with a reused map that held no
\* PRIORITY and no MESSAGE carries the arguments of its own call.
C25_MapNotModified == MapUntouched /\ OwnArguments

\* C26: Follow and Tail called with a nil handler return the error that a
\* handler must be provided and no stop function, and start no worker; no
\* worker ever calls a nil handler.
C26_NilHandlerRejected ==
    (fl.called /\ fl.h = "nil") =>
        /\ fl.err = HandlerError(fl.api)
        /\ ~fl.stop
        /\ pc = "none"

\* The worker's Open failed.
OpenFailed == \E n \in TerminalCalls : calls[n].err = "failed to open journal"

\* The worker's handle is closed when the worker is gone, and only then:
\* once if the worker had opened it, not at all if its Open failed.
ClosedOnExit ==
    /\ closes <= 1
    /\ closes = 1 => (pc = "exited" /\ ~ENABLED WorkerStep)
    /\ pc = "exited" => closes = (IF OpenFailed THEN 0 ELSE 1)

\* C27: a worker that opened its Journal closes it exactly once however it
\* leaves (stop, failed replay of a Match, failed seek, any failed
\* operation) and makes no call on it afterwards, a worker whose Open
\* failed closes nothing, and no step of the worker touches the owner's
\* Journal.
C27_WorkerClosesItsOwn ==
    /\ []ClosedOnExit
    /\ [][WorkerStep => j' = j]_vars

\* C27 (witness): the worker has left on a failed seek, with its Journal
\* closed, while the owner's Journal holds a filter and a position.
C27_Witness ==
    /\ pc = "exited"
    /\ closes = 1
    /\ calls = <<[entry |-> <<>>, err |-> "failed to seek to cursor"]>>
    /\ j.matches # <<>>
    /\ j.sdJournal.cur
====
